---- MODULE Spec2Model ----
(***************************************************************************)
(* Model of the rev-11-1105 LED driver pattern table (src/lib.rs): the     *)
(* Pattern enumeration with its integer discriminants and the three        *)
(* conversions as_percentage, as_abs_percentage and as_duty.               *)
(*                                                                         *)
(* f32 values are modelled exactly: a finite nonzero f32 is the record     *)
(* [inf |-> FALSE, neg, m, e] standing for (-1)^neg * m * 2^e with         *)
(* 2^23 <= m < 2^24, and every arithmetic operation rounds to nearest,     *)
(* ties to even, as IEEE-754 single precision does.  Integers of the       *)
(* generic type T are sign-magnitude bit strings (most significant bit     *)
(* first, no leading zero) so that the 64 and 128 bit types fit.           *)
(***************************************************************************)
EXTENDS Integers, Sequences, FiniteSets

(* ---------------------------------------------------------------------- *)
(* Bounds of the input space                                               *)
(* ---------------------------------------------------------------------- *)
\* max_duty values 0..SmallMax (and -SmallMax..-1 for signed types)
SmallMax == 10
\* max_duty values within EdgeSpan of the type's MIN and MAX
EdgeSpan == 2

(* ---------------------------------------------------------------------- *)
(* enum Pattern                                                            *)
(* ---------------------------------------------------------------------- *)
Discriminant ==
  [
    Rainbow |-> 1, RainbowParty |-> 3, RainbowOcean |-> 5, RainbowLava |-> 7,
    RainbowForest |-> 9, RainbowGlitter |-> 11, Confetti |-> 13,
    RedShot |-> 15, BlueShot |-> 17, WhiteShot |-> 19, SinelonRainbow |-> 21,
    SinelonParty |-> 23, SinelonOcean |-> 25, SinelonLava |-> 27,
    SinelonForest |-> 29, BpmRainbow |-> 31, BpmOcean |-> 35, BpmLava |-> 37,
    BpmForest |-> 39, FireMedium |-> 41, FireLarge |-> 43,
    TwinklesRainbow |-> 45, TwinklesParty |-> 47, TwinklesOcean |-> 49,
    TwinklesLava |-> 51, TwinklesForest |-> 53, WavesRainbow |-> 55,
    WavesParty |-> 57, WavesOcean |-> 59, WavesLava |-> 61,
    WavesForest |-> 63, LarsonRed |-> 65, LarsonGray |-> 67, ChaseRed |-> 69,
    ChaseBlue |-> 71, ChaseGray |-> 73, HeartbeatRed |-> 75,
    HeartbeatBlue |-> 77, HeartbeatWhite |-> 79, HeartbeatGray |-> 81,
    BreathRed |-> 83, BreathBlue |-> 85, BreathGray |-> 87,
    StrobeBlue |-> 91, StrobeGold |-> 93, StrobeWhite |-> 95,
    Color1BlendToBlack |-> 97, Color1Larson |-> 99, Color1Chase |-> 101,
    Color1HeartbeatSlow |-> 103, Color1HeartbeatMedium |-> 105,
    Color1HeartbeatFast |-> 107, Color1BreathSlow |-> 109,
    Color1BreathFast |-> 111, Color1Shot |-> 113, Color1Strobe |-> 115,
    Color2BlendToBlack |-> 117, Color2Larson |-> 119, Color2Chase |-> 121,
    Color2HeartbeatSlow |-> 123, Color2HeartbeatMedium |-> 125,
    Color2HeartbeatFast |-> 127, Color2BreathSlow |-> 129,
    Color2BreathFast |-> 131, Color2Shot |-> 133, Color2Strobe |-> 135,
    Sparkle1On2 |-> 137, Sparkle2On1 |-> 139, Gradient1And2 |-> 141,
    Bpm1And2 |-> 143, EndBlend1And2 |-> 145, EndBlend |-> 147,
    Color1And2NoBlend |-> 149, Twinkle1And2 |-> 151, Waves1And2 |-> 153,
    Sinelon1And2 |-> 155, HotPink |-> 157, DarkRed |-> 159, Red |-> 161,
    RedOrange |-> 163, Orange |-> 165, Gold |-> 167, Yellow |-> 169,
    LawnGreen |-> 171, Lime |-> 173, DarkGreen |-> 175, Green |-> 177,
    BlueGreen |-> 179, Aqua |-> 181, SkyBlue |-> 183, DarkBlue |-> 185,
    Blue |-> 187, BlueViolet |-> 189, Violet |-> 191, White |-> 193,
    Gray |-> 195, DarkGray |-> 197, Black |-> 199
  ]

Pattern == DOMAIN Discriminant

\* the discriminant cast to i8 instead of u8
rawCode_i8(p) ==
  IF Discriminant[p] % 256 >= 128 THEN (Discriminant[p] % 256) - 256
  ELSE Discriminant[p] % 256

\* the discriminant masked to seven bits
rawCode_7bit(p) == Discriminant[p] % 128

\* `*self as u8`
rawCode(p) == Discriminant[p] % 256

(* ---------------------------------------------------------------------- *)
(* f32 arithmetic                                                          *)
(* ---------------------------------------------------------------------- *)
RECURSIVE BitLen(_)
BitLen(v) == IF v = 0 THEN 0 ELSE 1 + BitLen(v \div 2)

FZero == [inf |-> FALSE, neg |-> FALSE, m |-> 0, e |-> 0]

FInf(neg) == [inf |-> TRUE, neg |-> neg, m |-> 0, e |-> 0]

\* a normalised significand with its exponent; beyond f32::MAX it is infinity
MkFin(neg, m, e) ==
  IF e > 104 THEN FInf(neg) ELSE [inf |-> FALSE, neg |-> neg, m |-> m, e |-> e]

\* Round (v + f) * 2^e, with 0 <= f < 1 and sticky <=> f > 0, to the nearest
\* f32, ties to even.  Callers keep v below 2^31 and, when sticky, v >= 2^24.
RoundF(neg, v, e, sticky) ==
  LET n == BitLen(v) IN
  IF v = 0 THEN FZero
  ELSE IF n <= 24 THEN MkFin(neg, v * 2^(24 - n), e - (24 - n))
  ELSE LET s    == n - 24
           q    == v \div 2^s
           r    == v % 2^s
           half == 2^(s - 1)
           up   == r > half \/ (r = half /\ (sticky \/ q % 2 = 1))
           m1   == IF up THEN q + 1 ELSE q
       IN IF m1 = 2^24 THEN MkFin(neg, 2^23, e + s + 1)
                       ELSE MkFin(neg, m1, e + s)

\* an integer literal or a `u8 as f32` cast: exact below 2^24
FromSmall(n) == RoundF(n < 0, IF n < 0 THEN -n ELSE n, 0, FALSE)

\* a + b for finite operands whose exponents differ by at most 7
FAdd(a, b) ==
  LET e0 == IF a.e < b.e THEN a.e ELSE b.e
      va == (IF a.neg THEN -1 ELSE 1) * a.m * 2^(a.e - e0)
      vb == (IF b.neg THEN -1 ELSE 1) * b.m * 2^(b.e - e0)
      s  == IF a.m = 0 THEN vb ELSE IF b.m = 0 THEN va ELSE va + vb
      ee == IF a.m = 0 THEN b.e ELSE IF b.m = 0 THEN a.e ELSE e0
  IN RoundF(s < 0, IF s < 0 THEN -s ELSE s, ee, FALSE)

FNeg(a) == IF a.m = 0 /\ ~a.inf THEN a ELSE [a EXCEPT !.neg = ~a.neg]

FSub(a, b) == FAdd(a, FNeg(b))

\* n further quotient bits of r / d by restoring division: <<quotient, rest>>
RECURSIVE LongDiv(_, _, _, _)
LongDiv(q, r, d, n) ==
  IF n = 0 THEN <<q, r>>
  ELSE IF 2 * r >= d THEN LongDiv(2 * q + 1, 2 * r - d, d, n - 1)
                     ELSE LongDiv(2 * q, 2 * r, d, n - 1)

\* a / b for finite operands, b nonzero
FDiv(a, b) ==
  IF a.m = 0 THEN FZero
  ELSE LET qr == LongDiv(a.m \div b.m, a.m % b.m, b.m, 25)
       IN RoundF(a.neg # b.neg, qr[1], a.e - b.e - 25, qr[2] # 0)

\* a * b; the 48 bit product of the significands is formed in 12 bit halves
FMul(a, b) ==
  IF a.inf \/ b.inf THEN FInf(a.neg # b.neg)
  ELSE IF a.m = 0 \/ b.m = 0 THEN FZero
  ELSE LET ah == a.m \div 4096
           al == a.m % 4096
           bh == b.m \div 4096
           bl == b.m % 4096
           y  == ah * bl + al * bh
           lowsum == (y % 4096) * 4096 + al * bl
           hi == ah * bh + y \div 4096 + lowsum \div 2^24
           lo == lowsum % 2^24
       IN RoundF(a.neg # b.neg, hi * 4 + lo \div 2^22,
                 a.e + b.e + 22, lo % 2^22 # 0)

\* a <= b for finite operands
FLe(a, b) ==
  LET sa == IF a.neg THEN -1 ELSE 1
      sb == IF b.neg THEN -1 ELSE 1
      magLe(x, y) == x.m = 0 \/ (y.m # 0 /\ (x.e < y.e \/ (x.e = y.e /\ x.m <= y.m)))
  IN IF a.m = 0 /\ b.m = 0 THEN TRUE
     ELSE IF a.m = 0 THEN ~b.neg
     ELSE IF b.m = 0 THEN a.neg
     ELSE IF a.neg # b.neg THEN a.neg
     ELSE IF a.neg THEN magLe(b, a) ELSE magLe(a, b)

(* ---------------------------------------------------------------------- *)
(* impl Pattern: the percentage conversions                                *)
(* ---------------------------------------------------------------------- *)
\* the operands of the subtraction swapped
as_percentage_negated(p) ==
  FDiv(FSub(FromSmall(100), FromSmall(rawCode(p))), FromSmall(100))

\* the offset of 100 left out
as_percentage_nooffset(p) == FDiv(FromSmall(rawCode(p)), FromSmall(100))

\* ((*self as u8) as f32 - 100.0) / 100.0
as_percentage(p) == FDiv(FSub(FromSmall(rawCode(p)), FromSmall(100)), FromSmall(100))

\* the shift by 1.0 left out
as_abs_percentage_noshift(p) == FDiv(as_percentage(p), FromSmall(2))

\* the halving left out
as_abs_percentage_nohalf(p) == FAdd(as_percentage(p), FromSmall(1))

\* (self.as_percentage() + 1.0) / 2.0
as_abs_percentage(p) == FDiv(FAdd(as_percentage(p), FromSmall(1)), FromSmall(2))

(* ---------------------------------------------------------------------- *)
(* Integers of the generic parameter T                                     *)
(* ---------------------------------------------------------------------- *)
IntTypes ==
  { [name |-> "u8",   w |-> 8,   signed |-> FALSE],
    [name |-> "i8",   w |-> 8,   signed |-> TRUE],
    [name |-> "u16",  w |-> 16,  signed |-> FALSE],
    [name |-> "i16",  w |-> 16,  signed |-> TRUE],
    [name |-> "u32",  w |-> 32,  signed |-> FALSE],
    [name |-> "i32",  w |-> 32,  signed |-> TRUE],
    [name |-> "u64",  w |-> 64,  signed |-> FALSE],
    [name |-> "i64",  w |-> 64,  signed |-> TRUE],
    [name |-> "u128", w |-> 128, signed |-> FALSE],
    [name |-> "i128", w |-> 128, signed |-> TRUE] }

IZero == [neg |-> FALSE, bits |-> <<>>]

Ones(n) == [i \in 1..n |-> 1]

Zeros(n) == [i \in 1..n |-> 0]

\* v as exactly n bits
PadBits(v, n) == [i \in 1..n |-> (v \div 2^(n - i)) % 2]

\* v without leading zeros
BitsOf(v) == PadBits(v, BitLen(v))

RECURSIVE ValOf(_)
ValOf(bits) ==
  IF bits = <<>> THEN 0
  ELSE 2 * ValOf(SubSeq(bits, 1, Len(bits) - 1)) + bits[Len(bits)]

RECURSIVE Strip(_)
Strip(bits) ==
  IF bits = <<>> \/ bits[1] = 1 THEN bits ELSE Strip(Tail(bits))

MkInt(neg, bits) ==
  LET b == Strip(bits) IN [neg |-> neg /\ b # <<>>, bits |-> b]

FromInt(n) == MkInt(n < 0, BitsOf(IF n < 0 THEN -n ELSE n))

\* 2^n - j as n bits, for 1 <= j <= 2^n and j <= 256
Pow2Minus(n, j) ==
  IF n <= 8 THEN PadBits(2^n - j, n) ELSE Ones(n - 8) \o PadBits(256 - j, 8)

\* magnitudes a <= b
MagLe(a, b) ==
  \/ Len(a) < Len(b)
  \/ /\ Len(a) = Len(b)
     /\ \/ a = b
        \/ \E i \in 1..Len(a) :
             a[i] < b[i] /\ \A j \in 1..(i - 1) : a[j] = b[j]

\* a <= b
ILe(a, b) ==
  IF a.neg # b.neg THEN a.neg
  ELSE IF a.neg THEN MagLe(b.bits, a.bits) ELSE MagLe(a.bits, b.bits)

\* T::MIN <= x <= T::MAX
Representable(x, T) ==
  IF ~T.signed THEN ~x.neg /\ Len(x.bits) <= T.w
  ELSE \/ Len(x.bits) <= T.w - 1
       \/ x.neg /\ x.bits = <<1>> \o Zeros(T.w - 1)

\* the max_duty arguments explored for type T
Inputs(T) ==
  LET wp  == IF T.signed THEN T.w - 1 ELSE T.w
      pos == {x \in {FromInt(n) : n \in 0..SmallMax} : Representable(x, T)}
             \cup {FromInt(n) : n \in {k \in {100, 127, 128, 200, 255, 16777217} : BitLen(k) <= wp}}
             \cup {MkInt(FALSE, Pow2Minus(wp, j + 1)) : j \in 0..EdgeSpan}
             \cup (IF wp < 26 THEN {}
                   ELSE {MkInt(FALSE, Ones(25) \o Zeros(wp - 25)),
                         MkInt(FALSE, Ones(24) \o <<0>> \o Pow2Minus(wp - 25, 1))})
      negs == IF ~T.signed THEN {}
              ELSE {x \in {FromInt(-n) : n \in 1..SmallMax} : Representable(x, T)}
                   \cup {MkInt(TRUE, <<1>> \o Zeros(wp))}
                   \cup {MkInt(TRUE, Pow2Minus(wp, j)) : j \in 1..EdgeSpan}
  IN pos \cup negs

(* ---------------------------------------------------------------------- *)
(* num::NumCast and the operators of T used by as_duty                     *)
(* ---------------------------------------------------------------------- *)
\* NumCast::from(max_duty) : Option<f32>; `as f32` rounds to nearest, ties
\* to even, and goes to infinity from f32::MAX + half an ulp on.  Always Some.
NumCastToF32(x) ==
  LET n == Len(x.bits) IN
  IF n <= 26 THEN RoundF(x.neg, ValOf(x.bits), 0, FALSE)
  ELSE RoundF(x.neg, ValOf(SubSeq(x.bits, 1, 26)), n - 26,
              \E i \in 27..n : x.bits[i] = 1)

\* the float truncated toward zero
Trunc(f) ==
  IF f.m = 0 \/ f.e <= -24 THEN IZero
  ELSE IF f.e >= 0 THEN MkInt(f.neg, BitsOf(f.m) \o Zeros(f.e))
  ELSE MkInt(f.neg, BitsOf(f.m \div 2^(-f.e)))

\* NumCast::from(f) : Option<T>; None for an infinity or when the truncated
\* value is outside T, else Some of the value truncated toward zero
NumCastToInt(f, T) ==
  IF f.inf THEN [some |-> FALSE, val |-> IZero]
  ELSE IF ~Representable(Trunc(f), T) THEN [some |-> FALSE, val |-> IZero]
  ELSE [some |-> TRUE, val |-> Trunc(f)]

\* a division that yields 0 instead of panicking on a zero divisor
IntDiv_zero(a, b) ==
  IF b.bits = <<>> THEN [status |-> "ok", val |-> IZero]
  ELSE IF a.bits = b.bits
    THEN [status |-> "ok", val |-> MkInt(a.neg # b.neg, <<1>>)]
  ELSE [status |-> "ok",
        val |-> MkInt(a.neg # b.neg, BitsOf(ValOf(a.bits) \div ValOf(b.bits)))]

\* a / b in T for operands of equal magnitude or of at most 30 bits;
\* division by zero panics
IntDiv(a, b) ==
  IF b.bits = <<>> THEN [status |-> "DivByZero", val |-> IZero]
  ELSE IF a.bits = b.bits
    THEN [status |-> "ok", val |-> MkInt(a.neg # b.neg, <<1>>)]
  ELSE [status |-> "ok",
        val |-> MkInt(a.neg # b.neg, BitsOf(ValOf(a.bits) \div ValOf(b.bits)))]

\* a * b in T for a left factor of magnitude at most 1
IntMul(a, b) ==
  IF a.bits = <<>> THEN IZero ELSE MkInt(a.neg # b.neg, b.bits)

(* ---------------------------------------------------------------------- *)
(* impl Pattern: as_duty                                                   *)
(* ---------------------------------------------------------------------- *)
\* as_duty scaling the signed percentage instead of the absolute one
as_duty_signed(p, T, max_duty) ==
  LET max_as_float == NumCastToF32(max_duty)
      ident        == IntDiv(max_duty, max_duty)
      scaled       == NumCastToInt(FMul(as_percentage(p), max_as_float), T)
  IN IF ident.status # "ok" THEN [status |-> "DivByZero", val |-> IZero]
     ELSE IF ~scaled.some THEN [status |-> "CastFail", val |-> IZero]
     ELSE [status |-> "ok", val |-> IntMul(ident.val, scaled.val)]

\* let max_as_float: f32 = NumCast::from(max_duty).unwrap();
\* return (max_duty / max_duty)
\*     * NumCast::from(self.as_abs_percentage() * max_as_float).unwrap();
as_duty(p, T, max_duty) ==
  LET max_as_float == NumCastToF32(max_duty)
      ident        == IntDiv(max_duty, max_duty)
      scaled       == NumCastToInt(FMul(as_abs_percentage(p), max_as_float), T)
  IN IF ident.status # "ok" THEN [status |-> "DivByZero", val |-> IZero]
     ELSE IF ~scaled.some THEN [status |-> "CastFail", val |-> IZero]
     ELSE [status |-> "ok", val |-> IntMul(ident.val, scaled.val)]

(* ---------------------------------------------------------------------- *)
(* One call of one conversion                                              *)
(* ---------------------------------------------------------------------- *)
VARIABLES op, self, ty, max_duty, pc, ret

vars == <<op, self, ty, max_duty, pc, ret>>

NoType == [name |-> "-", w |-> 0, signed |-> FALSE]

Pending == [status |-> "pending", val |-> IZero]

Init ==
  /\ self \in Pattern
  /\ pc = "call"
  /\ ret = Pending
  /\ \/ /\ op \in {"as_percentage", "as_abs_percentage"}
        /\ ty = NoType
        /\ max_duty = IZero
     \/ /\ op = "as_duty"
        /\ ty \in IntTypes
        /\ max_duty \in Inputs(ty)

Call_as_percentage ==
  /\ pc = "call"
  /\ op = "as_percentage"
  /\ ret' = [status |-> "ok", val |-> as_percentage(self)]
  /\ pc' = "done"
  /\ UNCHANGED <<op, self, ty, max_duty>>

Call_as_abs_percentage ==
  /\ pc = "call"
  /\ op = "as_abs_percentage"
  /\ ret' = [status |-> "ok", val |-> as_abs_percentage(self)]
  /\ pc' = "done"
  /\ UNCHANGED <<op, self, ty, max_duty>>

Call_as_duty ==
  /\ pc = "call"
  /\ op = "as_duty"
  /\ ret' = as_duty(self, ty, max_duty)
  /\ pc' = "done"
  /\ UNCHANGED <<op, self, ty, max_duty>>

Next == Call_as_percentage \/ Call_as_abs_percentage \/ Call_as_duty

Spec == Init /\ [][Next]_vars

(* ---------------------------------------------------------------------- *)
(* Properties                                                              *)
(* ---------------------------------------------------------------------- *)
\* the f32 (-1)^neg * m * 2^e
F32(neg, m, e) == [inf |-> FALSE, neg |-> neg, m |-> m, e |-> e]

\* |f| <= 1
InUnit(f) == ~f.inf /\ (f.m = 0 \/ f.e <= -24 \/ (f.e = -23 /\ f.m = 2^23))

\* f * 2^24 rounded toward zero, for |f| <= 1
Fix24(f) ==
  LET k == -f.e - 24
      a == IF k < 0 THEN f.m * 2^(-k) ELSE IF k > 24 THEN 0 ELSE f.m \div 2^k
  IN IF f.neg THEN -a ELSE a

Abs(n) == IF n < 0 THEN -n ELSE n

\* f is an f32 nearest to num / den (den > 0): the exact quotient correctly
\* rounded, which is also what the decimal literal num/den denotes
NearestTo(f, num, den) ==
  /\ InUnit(f)
  /\ f.m # 0
  /\ f.neg = (num < 0)
  /\ BitLen(Abs(num)) - f.e <= 31
  /\ 2 * Abs(den * f.m - Abs(num) * 2^(-f.e)) <= den

Done(o) == pc = "done" /\ op = o

\* C1: for every Pattern p, as_percentage(p) equals (rawCode(p) - 100) / 100
\* (the f32 nearest to that quotient, hence within 1e-6 of it); FireMedium
\* (41) gives the f32 -0.59 and Aqua (181) the f32 0.81.
C1_as_percentage_value ==
  Done("as_percentage") =>
    /\ ret.status = "ok"
    /\ NearestTo(ret.val, rawCode(self) - 100, 100)
    /\ self = "FireMedium" => ret.val = F32(TRUE, 9898557, -24)
    /\ self = "Aqua" => ret.val = F32(FALSE, 13589545, -24)

C1_witness ==
  /\ Done("as_percentage")
  /\ self = "FireMedium"
  /\ rawCode(self) = 41
  /\ ret.val = F32(TRUE, 9898557, -24)

\* C2: for every Pattern p, as_abs_percentage(p) equals
\* (as_percentage(p) + 1) / 2 and rawCode(p) / 200, both within 1e-6;
\* Color1Larson (99) gives the f32 0.495 and Color1Chase (101) the f32 0.505.
C2_as_abs_percentage_value ==
  Done("as_abs_percentage") =>
    /\ ret.status = "ok"
    /\ InUnit(ret.val)
    /\ Abs(2 * Fix24(ret.val) - 2^24 - Fix24(as_percentage(self))) <= 30
    /\ Abs(25 * Fix24(ret.val) - rawCode(self) * 2^21) <= 394
    /\ self = "Color1Larson" => ret.val = F32(FALSE, 16609444, -25)
    /\ self = "Color1Chase" => ret.val = F32(FALSE, 8472494, -24)

C2_witness ==
  /\ Done("as_abs_percentage")
  /\ self = "Color1Larson"
  /\ rawCode(self) = 99
  /\ ret.val = F32(FALSE, 16609444, -25)

\* C3: for every Pattern p and every nonzero max_duty of an integer type T,
\* as_duty(p, max_duty) returns as_abs_percentage(p) * max_duty (the f32
\* product) truncated toward zero, the factor max_duty / max_duty being 1;
\* as_duty(Color1Larson, 255u8) is 126.
C3_as_duty_value ==
  (Done("as_duty") /\ max_duty # IZero) =>
    /\ ret.status = "ok"
    /\ ret.val = Trunc(FMul(as_abs_percentage(self), NumCastToF32(max_duty)))
    /\ (self = "Color1Larson" /\ ty.name = "u8" /\ max_duty = FromInt(255))
         => ret.val = FromInt(126)

\* C4: for every Pattern p and every integer type T, as_duty(p, 0) returns
\* no value: max_duty / max_duty panics with a division by zero.
C4_as_duty_zero_traps ==
  (Done("as_duty") /\ max_duty = IZero) => ret.status = "DivByZero"

C4_witness ==
  /\ Done("as_duty")
  /\ ty.name = "u16"
  /\ max_duty = IZero
  /\ ret.status = "DivByZero"

C6_codes_odd_in_range ==
  /\ rawCode(self) \in 1..199
  /\ rawCode(self) % 2 = 1

C6_witness ==
  /\ pc = "done"
  /\ self = "Black"
  /\ rawCode(self) = 199

\* C7: for every Pattern p, as_abs_percentage(p) lies in [0.0, 1.0].
C7_as_abs_percentage_range ==
  Done("as_abs_percentage") =>
    /\ ~ret.val.inf
    /\ FLe(FZero, ret.val)
    /\ FLe(ret.val, F32(FALSE, 8388608, -23))

C7_witness ==
  /\ Done("as_abs_percentage")
  /\ self = "Black"
  /\ ret.val = F32(FALSE, 16693330, -24)

\* C8: for every Pattern p, as_percentage(p) lies in [-1.0, 0.99], the
\* bounds being the f32 values -1.0 and 0.99.
C8_as_percentage_range ==
  Done("as_percentage") =>
    /\ ~ret.val.inf
    /\ FLe(F32(TRUE, 8388608, -23), ret.val)
    /\ FLe(ret.val, F32(FALSE, 16609444, -24))

C8_witness ==
  /\ Done("as_percentage")
  /\ self = "Black"
  /\ ret.val = F32(FALSE, 16609444, -24)

CodeImage == {rawCode(q) : q \in Pattern}

\* C9: the Pattern-to-code mapping is one-to-one, its image is the odd
\* integers of 1..199 without 33 and 89, and there are 98 variants.
C9_codes_one_to_one ==
  /\ \A q \in Pattern : rawCode(q) = rawCode(self) => q = self
  /\ CodeImage = {c \in 1..199 : c % 2 = 1} \ {33, 89}
  /\ Cardinality(Pattern) = 98

C9_witness ==
  /\ pc = "done"
  /\ self = "BpmOcean"
  /\ rawCode(self) = 35
  /\ \A q \in Pattern : rawCode(q) \notin {33, 89}

\* C10: on every bounded integer type as_duty fails if and only if max_duty
\* is 0 (both casts always succeed), and as_percentage and as_abs_percentage
\* never fail.
C10_fails_only_on_zero ==
  pc = "done" =>
    /\ op = "as_duty" => (ret.status # "ok" <=> max_duty = IZero)
    /\ op # "as_duty" => ret.status = "ok"

====
